---------------------------- MODULE Spec2Model ----------------------------
(***************************************************************************)
(* The Job Manager of lastore-daemon (src/lastore-daemon/job_manager.go)   *)
(* and its facade (manager.go) as a state machine.                         *)
(*                                                                         *)
(* Job objects live in a heap `jobs`; a queue is a sequence of heap        *)
(* indices (pointers), 0 is nil.  Every exported method and one tick of    *)
(* the dispatch loop is one action.  The order in which Go ranges over the *)
(* map m.queues is unspecified: every action draws it from QueueOrders, or *)
(* from those of its orders that can differ in their result.               *)
(*                                                                         *)
(* The program reads ids only for equality and CreateTimes only for their  *)
(* order, and a new job's id and CreateTime are larger than every earlier  *)
(* one.  After each action the objects no queue can reach any more are     *)
(* dropped and the remaining objects, CreateTimes and ids are renumbered   *)
(* 1, 2, ... in their order (Commit): jobs may be created without bound,   *)
(* MaxJobs bounds how many exist at once.                                  *)
(*                                                                         *)
(* An operation is either taken plainly, or recorded: a recorded operation *)
(* has the same effect and leaves in `last` what was called, the state     *)
(* before it, and what it returned.  A state with a record is expanded no  *)
(* further: every operation in every reachable state has its recorded      *)
(* twin, and the history does not multiply the states to explore.          *)
(*                                                                         *)
(* job.go, the state machine and the package backend are not part of the   *)
(* sources at hand; NewJob, TransitionJobState, ValidTransitionJobState,   *)
(* StartSystemJob, _UpdateInfo and the backend (Abort, the indicator) are  *)
(* written from the specification's sections 3, 4.2, 4.3 and 6.            *)
(***************************************************************************)
EXTENDS Integers, Sequences, FiniteSets, TLC

\* ------------------------------------------------------------------ bounds
\* Number of Job objects that exist at once (an Install makes two).
MaxJobs == 4

\* --------------------------------------------------------------- constants
DownloadQueue == "download"
DownloadQueueCap == 3
SystemChangeQueue == "system change"
SystemChangeQueueCap == 1
LockQueue == "lock"
LockQueueCap == 1

QueueNames == {DownloadQueue, SystemChangeQueue, LockQueue}

Cap(name) ==
    CASE name = DownloadQueue -> DownloadQueueCap
      [] name = SystemChangeQueue -> SystemChangeQueueCap
      [] name = LockQueue -> LockQueueCap

\* Orders in which a `range m.queues` may visit the three queues.
QueueOrders ==
    { o \in [1..3 -> QueueNames] : \A i, j \in 1..3 : i # j => o[i] # o[j] }

DownloadJobType == "download"
InstallJobType == "install"
RemoveJobType == "remove"
UpdateJobType == "update"
DistUpgradeJobType == "dist_upgrade"
UpdateSourceJobType == "update_source"

JobTypes ==
    { DownloadJobType, InstallJobType, RemoveJobType, UpdateJobType,
      DistUpgradeJobType, UpdateSourceJobType }

ReadyStatus == "ready"
RunningStatus == "running"
FailedStatus == "failed"
PausedStatus == "paused"
SucceedStatus == "succeed"
EndStatus == "end"

Statuses ==
    { ReadyStatus, RunningStatus, FailedStatus, PausedStatus, SucceedStatus,
      EndStatus }

NoError == "ok"
NotFoundError == "not-found"
NotSupportError == "not-supported"
ConflictError == "conflict"
ResourceExitError == "resource-exists"
BackendError == "backend-failure"

\* Retry budget a new job starts with.
DefaultRetry == 1

\* The requests clients submit, as the facade forwards them to CreateJob:
\* UpdateSource and DistUpgrade carry no package, the other verbs a package
\* list.  <<"a","b">> and <<"ab">> are different lists with one fingerprint.
Install_a_b == <<InstallJobType, <<"a", "b">>>>
Download_ab == <<DownloadJobType, <<"ab">>>>
Update_ab == <<UpdateJobType, <<"ab">>>>
Remove_ab == <<RemoveJobType, <<"ab">>>>
DistUpgrade_ == <<DistUpgradeJobType, <<>>>>
UpdateSource_ == <<UpdateSourceJobType, <<>>>>

\* The clients of one behaviour make the requests of one of these sets.
Universes ==
    { {Install_a_b, Download_ab},
      {Update_ab, DistUpgrade_},
      {DistUpgrade_, Download_ab},
      {Update_ab, Remove_ab},
      {UpdateSource_, DistUpgrade_} }

\* ------------------------------------------------------------------- state
VARIABLES
    jobs,      \* heap of Job objects: [1..MaxJobs -> Job record]
    queues,    \* JobManager.queues: [QueueNames -> Seq(1..MaxJobs)]
    changed,   \* JobManager.changed
    exec,      \* the backend: what it is doing for each job id
    universe,  \* the requests the clients of this behaviour make
    tick,      \* where the dispatch goroutine is: "idle", or "reaped"
               \* (between the two loops of dispatch, dispatchLock held)
    JobList,   \* Manager.JobList: the jobs listed when the manager was last
               \* notified (obj: the Job pointed to, 0 once it is destroyed)
    last       \* the operation that led to this state, and what it returned

vars == <<jobs, queues, changed, exec, universe, tick, JobList, last>>

Objs == 1..MaxJobs

\* A heap cell that holds no job (never allocated, or destroyed).
NilJob ==
    [ Id |-> 0, Type |-> "", Packages |-> <<>>, Status |-> "",
      Cancelable |-> FALSE, retry |-> 0, queueName |-> "", next |-> 0,
      CreateTime |-> 0 ]

\* -------------------------------------------------------- pure operations
\* strings.Join(packages, "")
RECURSIVE Join(_)
Join(packages) ==
    IF packages = <<>> THEN "" ELSE Head(packages) \o Join(Tail(packages))

\* JobList.Less
Less(js, a, b) ==
    IF js[a].Type = UpdateSourceJobType
    THEN TRUE
    ELSE js[a].CreateTime < js[b].CreateTime

\* JobList.Swap on 1-based positions
Swap(s, i, j) == [s EXCEPT ![i] = s[j], ![j] = s[i]]

\* sort.Sort on a JobList of fewer than eight elements is an insertion sort
\* driven by Less.
RECURSIVE Sink(_, _, _)
Sink(js, s, j) ==
    IF j > 1 /\ Less(js, s[j], s[j - 1])
    THEN Sink(js, Swap(s, j, j - 1), j - 1)
    ELSE s

RECURSIVE InsertionSort(_, _, _)
InsertionSort(js, s, i) ==
    IF i > Len(s) THEN s ELSE InsertionSort(js, Sink(js, s, i), i + 1)

SortJobs(js, s) == InsertionSort(js, s, 2)

Range(s) == { s[i] : i \in DOMAIN s }

\* Position of the first job of s with the given id, 0 if there is none.
IndexOf(js, s, id) ==
    IF \E i \in DOMAIN s : js[s[i]].Id = id
    THEN CHOOSE i \in DOMAIN s :
            /\ js[s[i]].Id = id
            /\ \A k \in 1..(i - 1) : js[s[k]].Id # id
    ELSE 0

RemoveAt(s, i) == SubSeq(s, 1, i - 1) \o SubSeq(s, i + 1, Len(s))

\* The jobs of s with the given status, in the order of s.
RECURSIVE WithStatus(_, _, _)
WithStatus(js, s, status) ==
    IF s = <<>> THEN <<>>
    ELSE IF js[Head(s)].Status = status
         THEN <<Head(s)>> \o WithStatus(js, Tail(s), status)
         ELSE WithStatus(js, Tail(s), status)

\* JobQueue.RunningJobs
RunningJobs(js, s) == WithStatus(js, s, RunningStatus)

\* ValidTransitionJobState: the transition table.
ValidTransitionJobState(from, to) ==
    CASE from = ReadyStatus -> to \in {RunningStatus, PausedStatus, EndStatus}
      [] from = RunningStatus ->
            to \in {SucceedStatus, FailedStatus, PausedStatus, EndStatus}
      [] from = FailedStatus -> to \in {ReadyStatus, EndStatus}
      [] from = PausedStatus -> to \in {ReadyStatus, EndStatus}
      [] from = SucceedStatus -> to \in {EndStatus}
      [] OTHER -> FALSE


\* ------------------------------------------------- the manager as a value
\* The operations below take the manager state m (jobs, queues, changed,
\* exec; nObjs objects and nIds ids are in use) and return the state they
\* leave, with their results.

\* NewJob: a Ready job with a fresh id, created after every other job.
NewJob(m, packages, jobType, queueName) ==
    LET n == m.nObjs + 1 IN
    [ m |-> [m EXCEPT !.nObjs = n,
                      !.nIds = @ + 1,
                      !.jobs[n] =
                          [ Id |-> m.nIds + 1, Type |-> jobType,
                            Packages |-> packages, Status |-> ReadyStatus,
                            Cancelable |-> TRUE, retry |-> DefaultRetry,
                            queueName |-> queueName, next |-> 0,
                            CreateTime |-> n ]],
      job |-> n ]

\* TransitionJobState: the only mutator of Job.Status.  Entering End from a
\* status other than Succeed drops the successor.
TransitionJobState(m, j, to) ==
    LET from == m.jobs[j].Status IN
    IF ~ValidTransitionJobState(from, to)
    THEN [m |-> m, err |-> NotSupportError]
    ELSE [ m |-> [m EXCEPT !.jobs[j].Status = to,
                           !.jobs[j].next =
                               IF to = EndStatus /\ from # SucceedStatus
                               THEN 0 ELSE @,
                           !.changed = TRUE],
           err |-> NoError ]

\* JobQueue.Find over every queue, in the order the map is ranged over.
RECURSIVE findIn(_, _, _, _)
findIn(m, jobId, ord, k) ==
    IF k > 3 THEN 0
    ELSE LET s == m.queues[ord[k]]
             i == IndexOf(m.jobs, s, jobId)
         IN  IF i # 0 THEN s[i] ELSE findIn(m, jobId, ord, k + 1)

\* JobManager.find
find(m, jobId, ord) == findIn(m, jobId, ord, 1)

\* JobQueue.Add without the loop that looks for a job of the same type and
\* fingerprint.
AddNoConflictCheck(m, name, j) ==
    [ m |-> [m EXCEPT !.queues[name] = SortJobs(m.jobs, Append(@, j))],
      err |-> NoError ]

\* JobQueue.Add
QueueAdd(m, name, j) ==
    IF \E i \in DOMAIN m.queues[name] :
          /\ m.jobs[m.queues[name][i]].Type = m.jobs[j].Type
          /\ Join(m.jobs[m.queues[name][i]].Packages) = Join(m.jobs[j].Packages)
    THEN [m |-> m, err |-> ConflictError]
    ELSE [ m |-> [m EXCEPT !.queues[name] = SortJobs(m.jobs, Append(@, j))],
           err |-> NoError ]

\* JobQueue.Remove (DestroyJob releases the job's bus object: no state here)
QueueRemove(m, name, id) ==
    LET i == IndexOf(m.jobs, m.queues[name], id) IN
    IF i = 0 THEN [m |-> m, err |-> NotFoundError]
    ELSE [ m |-> [m EXCEPT !.queues[name] = SortJobs(m.jobs, RemoveAt(@, i))],
           err |-> NoError ]

\* Raise that moves the job to the head and every job before it one place
\* back.
QueueRaiseToFront(m, name, jobId) ==
    LET p == IndexOf(m.jobs, m.queues[name], jobId) IN
    IF p = 0 THEN [m |-> m, err |-> NotFoundError]
    ELSE [ m |-> [m EXCEPT !.queues[name] = <<@[p]>> \o RemoveAt(@, p)],
           err |-> NoError ]

\* JobQueue.Raise
QueueRaise(m, name, jobId) ==
    LET p == IndexOf(m.jobs, m.queues[name], jobId) IN
    IF p = 0 THEN [m |-> m, err |-> NotFoundError]
    ELSE [ m |-> [m EXCEPT !.queues[name] = Swap(@, 1, p)], err |-> NoError ]

\* JobManager.addJob
addJob(m, j) ==
    IF j = 0 \/ m.jobs[j].queueName \notin QueueNames
    THEN [m |-> m, err |-> NotFoundError]
    ELSE LET r == QueueAdd(m, m.jobs[j].queueName, j) IN
         IF r.err # NoError THEN r
         ELSE [m |-> [r.m EXCEPT !.changed = TRUE], err |-> NoError]

\* JobManager.removeJob
removeJob(m, jobId, queueName) ==
    IF queueName \notin QueueNames THEN [m |-> m, err |-> NotFoundError]
    ELSE LET r == QueueRemove(m, queueName, jobId) IN
         IF r.err # NoError THEN r
         ELSE [m |-> [r.m EXCEPT !.changed = TRUE], err |-> NoError]

\* JobManager.MarkStart
MarkStart(m, jobId, ord) ==
    LET j == find(m, jobId, ord) IN
    IF j = 0 THEN [m |-> m, err |-> NotFoundError]
    ELSE LET t == IF m.jobs[j].Status # ReadyStatus
                  THEN TransitionJobState(m, j, ReadyStatus)
                  ELSE [m |-> m, err |-> NoError]
         IN  IF t.err # NoError THEN t
             ELSE IF m.jobs[j].queueName \notin QueueNames
                  THEN [m |-> t.m, err |-> NotFoundError]
                  ELSE QueueRaise(t.m, m.jobs[j].queueName, jobId)

\* system.Abort: the backend stops what it runs for the id, or refuses.
Abort(m, id, abortOk) ==
    IF abortOk
    THEN [m |-> [m EXCEPT !.exec[id] = "idle"], err |-> NoError]
    ELSE [m |-> m, err |-> BackendError]

\* JobManager.PauseJob
PauseJob(m, jobId, abortOk, ord) ==
    LET j == find(m, jobId, ord) IN
    IF j = 0 THEN [m |-> m, err |-> NotFoundError, aborted |-> FALSE]
    ELSE IF ~ValidTransitionJobState(m.jobs[j].Status, PausedStatus)
    THEN [m |-> m, err |-> NotSupportError, aborted |-> FALSE]
    ELSE LET a == Abort(m, m.jobs[j].Id, abortOk) IN
         IF a.err # NoError
         THEN [m |-> a.m, err |-> a.err, aborted |-> TRUE]
         ELSE LET t == TransitionJobState(a.m, j, PausedStatus) IN
              [m |-> t.m, err |-> t.err, aborted |-> TRUE]

\* JobManager.CleanJob without lines 146-148: next is left as it is.
CleanJobKeepsNext(m, jobId, abortOk, ord) ==
    LET j == find(m, jobId, ord) IN
    IF j = 0
    THEN [ m |-> m, err |-> NotFoundError, pausing |-> FALSE,
           paused |-> FALSE, aborted |-> FALSE ]
    ELSE LET pausing == m.jobs[j].Status = RunningStatus /\ m.jobs[j].Cancelable
             p == IF pausing
                  THEN PauseJob(m, jobId, abortOk, ord)
                  ELSE [m |-> m, err |-> NoError, aborted |-> FALSE]
             t == TransitionJobState(p.m, j, EndStatus)
         IN  [ m |-> t.m, err |-> t.err, pausing |-> pausing,
               paused |-> pausing /\ p.err = NoError, aborted |-> p.aborted ]

\* JobManager.CleanJob
CleanJob(m, jobId, abortOk, ord) ==
    LET j == find(m, jobId, ord) IN
    IF j = 0
    THEN [ m |-> m, err |-> NotFoundError, pausing |-> FALSE,
           paused |-> FALSE, aborted |-> FALSE ]
    ELSE LET pausing == m.jobs[j].Status = RunningStatus /\ m.jobs[j].Cancelable
             p == IF pausing
                  THEN PauseJob(m, jobId, abortOk, ord)
                  ELSE [m |-> m, err |-> NoError, aborted |-> FALSE]
             m1 == IF ValidTransitionJobState(p.m.jobs[j].Status, EndStatus)
                   THEN [p.m EXCEPT !.jobs[j].next = 0]
                   ELSE p.m
             t == TransitionJobState(m1, j, EndStatus)
         IN  [ m |-> t.m, err |-> t.err, pausing |-> pausing,
               paused |-> pausing /\ p.err = NoError, aborted |-> p.aborted ]

\* JobManager.List: every queue's jobs in map order, then sorted.
RECURSIVE Concat(_, _, _)
Concat(qs, ord, k) ==
    IF k > 3 THEN <<>> ELSE qs[ord[k]] \o Concat(qs, ord, k + 1)

List(m, ord) == SortJobs(m.jobs, Concat(m.queues, ord, 1))

\* JobManager.guest: the id of the first listed job that is, or whose
\* successor is, of the given type and fingerprint; 0 stands for "".
RECURSIVE guestIn(_, _, _, _)
guestIn(js, l, jobType, pList) ==
    IF l = <<>> THEN 0
    ELSE LET job == js[Head(l)] IN
         IF job.Type = jobType /\ Join(job.Packages) = pList THEN job.Id
         ELSE IF job.next # 0
                 /\ js[job.next].Type = jobType
                 /\ Join(js[job.next].Packages) = pList
              THEN job.Id
              ELSE guestIn(js, Tail(l), jobType, pList)

guest(m, jobType, packages, ord) ==
    guestIn(m.jobs, List(m, ord), jobType, Join(packages))

\* The NewJob calls of CreateJob's switch.
Construct(m, jobType, packages) ==
    CASE jobType = DownloadJobType ->
            NewJob(m, packages, DownloadJobType, DownloadQueue)
      [] jobType = InstallJobType ->
            LET a == NewJob(m, packages, DownloadJobType, DownloadQueue)
                b == NewJob(a.m, packages, InstallJobType, SystemChangeQueue)
            IN  [ m |-> [b.m EXCEPT !.jobs[a.job].next = b.job,
                                    !.jobs[a.job].Id = b.m.jobs[b.job].Id],
                  job |-> a.job ]
      [] jobType = RemoveJobType ->
            NewJob(m, packages, RemoveJobType, SystemChangeQueue)
      [] jobType = UpdateSourceJobType ->
            NewJob(m, <<>>, UpdateSourceJobType, LockQueue)
      [] jobType = DistUpgradeJobType ->
            NewJob(m, packages, DistUpgradeJobType, LockQueue)
      [] jobType = UpdateJobType ->
            NewJob(m, packages, UpdateJobType, SystemChangeQueue)

\* Number of NewJob calls Construct makes.
Fresh(jobType) == IF jobType = InstallJobType THEN 2 ELSE 1

\* JobManager.CreateJob.  `job` is the returned *Job, `id` its Id.
CreateJob(m, jobType, packages, ord) ==
    LET g == find(m, guest(m, jobType, packages, ord), ord) IN
    IF g # 0
    THEN LET s == MarkStart(m, m.jobs[g].Id, ord) IN
         [ m |-> s.m, job |-> g, id |-> m.jobs[g].Id, err |-> s.err,
           created |-> FALSE ]
    ELSE IF jobType \notin JobTypes
    THEN [ m |-> m, job |-> 0, id |-> 0, err |-> NotSupportError,
           created |-> FALSE ]
    ELSE LET c == Construct(m, jobType, packages)
             a == addJob(c.m, c.job)
             s == MarkStart(a.m, a.m.jobs[c.job].Id, ord)
         IN  [ m |-> s.m, job |-> c.job, id |-> a.m.jobs[c.job].Id,
               err |-> s.err, created |-> TRUE ]

\* Candidates that take a Failed job whatever retry it has left.
RECURSIVE CandidatesAnyFailed(_, _)
CandidatesAnyFailed(js, s) ==
    IF s = <<>> THEN <<>>
    ELSE LET job == js[Head(s)] IN
         IF job.Status \in {ReadyStatus, FailedStatus}
         THEN <<Head(s)>> \o CandidatesAnyFailed(js, Tail(s))
         ELSE CandidatesAnyFailed(js, Tail(s))

\* JobQueue.PendingJobs: the candidates (Ready, and Failed with retry left,
\* whose retry is decremented), and of them the first n in queue order,
\* sorted, n being the free capacity or the number of candidates.
RECURSIVE Candidates(_, _)
Candidates(js, s) ==
    IF s = <<>> THEN <<>>
    ELSE LET job == js[Head(s)] IN
         IF \/ job.Status = ReadyStatus
            \/ job.Status = FailedStatus /\ job.retry > 0
         THEN <<Head(s)>> \o Candidates(js, Tail(s))
         ELSE Candidates(js, Tail(s))

Min(a, b) == IF a < b THEN a ELSE b
Max(a, b) == IF a > b THEN a ELSE b

\* PendingJobs without the capacity: every candidate is taken.
PendingCountUncapped(cap, numRunning, numPending) == numPending

PendingCount(cap, numRunning, numPending) ==
    Min(Max(cap - numRunning, 0), numPending)

\* PendingJobs as if the candidates were sorted before the first n of them
\* are taken.
PendingJobsSortFirst(m, name) ==
    LET s == m.queues[name]
        readyJobs == SortJobs(m.jobs, Candidates(m.jobs, s))
        numRunning == Len(RunningJobs(m.jobs, s))
        n == PendingCount(Cap(name), numRunning, Len(readyJobs))
        js1 == [ o \in Objs |->
                   IF o \in Range(s) /\ m.jobs[o].Status = FailedStatus
                      /\ m.jobs[o].retry > 0
                   THEN [m.jobs[o] EXCEPT !.retry = @ - 1]
                   ELSE m.jobs[o] ]
    IN  [ m |-> [m EXCEPT !.jobs = js1], r |-> SubSeq(readyJobs, 1, n) ]

PendingJobs(m, name) ==
    LET s == m.queues[name]
        readyJobs == Candidates(m.jobs, s)
        numRunning == Len(RunningJobs(m.jobs, s))
        n == PendingCount(Cap(name), numRunning, Len(readyJobs))
        js1 == [ o \in Objs |->
                   IF o \in Range(s) /\ m.jobs[o].Status = FailedStatus
                      /\ m.jobs[o].retry > 0
                   THEN [m.jobs[o] EXCEPT !.retry = @ - 1]
                   ELSE m.jobs[o] ]
    IN  [ m |-> [m EXCEPT !.jobs = js1],
          r |-> SortJobs(js1, SubSeq(readyJobs, 1, n)) ]

\* StartSystemJob: hands the job to the backend, which takes it (Running)
\* or fails it at once (Failed).
StartSystemJob(m, j, startOk) ==
    LET t == TransitionJobState(m, j, RunningStatus) IN
    IF t.err # NoError THEN t
    ELSE IF startOk
    THEN [ m |-> [t.m EXCEPT !.exec[m.jobs[j].Id] = "running"],
           err |-> NoError ]
    ELSE [ m |-> TransitionJobState(t.m, j, FailedStatus).m,
           err |-> BackendError ]

\* Job._UpdateInfo: the fields of a progress report that differ are taken
\* over; a new status goes through TransitionJobState.
UpdateInfo(m, j, status, cancelable) ==
    LET m1 == IF m.jobs[j].Cancelable # cancelable
              THEN [m EXCEPT !.jobs[j].Cancelable = cancelable]
              ELSE m
        t == IF m1.jobs[j].Status # status
             THEN TransitionJobState(m1, j, status)
             ELSE [m |-> m1, err |-> NotSupportError]
    IN  [ m |-> t.m,
          changed |-> m.jobs[j].Cancelable # cancelable \/ t.err = NoError ]

\* JobManager.handleJobProgressInfo
handleJobProgressInfo(m, jobId, status, cancelable, ord) ==
    LET j == find(m, jobId, ord) IN
    IF j = 0 THEN m
    ELSE LET u == UpdateInfo(m, j, status, cancelable) IN
         IF u.changed THEN [u.m EXCEPT !.changed = TRUE] ELSE u.m

\* ---------------------------------------------------------------- dispatch
\* The first loop of dispatch leaving after the first queue of the range.
EndJobsOneQueue(m, ord, k) ==
    IF k > 1 THEN <<>>
    ELSE WithStatus(m.jobs, m.queues[ord[k]], EndStatus)

\* dispatch, lines 188-197: the jobs in End, queue after queue.
RECURSIVE EndJobs(_, _, _)
EndJobs(m, ord, k) ==
    IF k > 3 THEN <<>>
    ELSE WithStatus(m.jobs, m.queues[ord[k]], EndStatus) \o EndJobs(m, ord, k + 1)

\* The body of the reaping loop without lines 200-204: the job is removed
\* and its successor forgotten.
ReapOneDropsNext(m, j, ord) ==
    removeJob(m, m.jobs[j].Id, m.jobs[j].queueName).m

\* dispatch, the body of the loop of lines 198-205 for one job: remove it,
\* then admit and start its successor.
ReapOne(m, j, ord) ==
    LET r == removeJob(m, m.jobs[j].Id, m.jobs[j].queueName).m
        n == m.jobs[j].next
    IN  IF n # 0
        THEN MarkStart(addJob(r, n).m, r.jobs[n].Id, ord).m
        ELSE r

RECURSIVE Reap(_, _, _)
Reap(m, pendingDeleteJobs, ord) ==
    IF pendingDeleteJobs = <<>> THEN m
    ELSE Reap(ReapOne(m, Head(pendingDeleteJobs), ord),
              Tail(pendingDeleteJobs), ord)

\* dispatch, lines 208-211: a queue other than the lock queue waits while
\* the lock queue runs a job.
\* dispatch without the wait: no queue waits.
WaitForLockNever(m, name) == FALSE

\* dispatch waiting for the lock queue whatever it runs.
WaitForLockAlways(m, name) == name # LockQueue

WaitForLock(m, name) ==
    name # LockQueue /\ Len(RunningJobs(m.jobs, m.queues[LockQueue])) # 0

\* dispatch, lines 215-224: start the pending jobs one after the other.
\* `fails` are the jobs whose start the backend fails at once.  The jobs
\* restarted from Failed and the jobs handed to StartSystemJob are noted in
\* m.restarted and m.started.
RECURSIVE StartAll(_, _, _, _)
StartAll(m, pending, fails, ord) ==
    IF pending = <<>> THEN m
    ELSE LET j == Head(pending)
             m1 == IF m.jobs[j].Status = FailedStatus
                   THEN [ MarkStart(m, m.jobs[j].Id, ord).m EXCEPT
                            !.restarted = @ \cup {j} ]
                   ELSE m
             m2 == StartSystemJob(m1, j, j \notin fails).m
         IN  StartAll([m2 EXCEPT !.started = @ \cup {j}],
                      Tail(pending), fails, ord)

\* dispatch, lines 207-225: queue after queue in the order `ord`.
RECURSIVE Schedule(_, _, _, _)
Schedule(m, ord, k, fails) ==
    IF k > 3 THEN m
    ELSE IF WaitForLock(m, ord[k]) THEN Schedule(m, ord, k + 1, fails)
    ELSE LET p == PendingJobs(m, ord[k]) IN
         Schedule(StartAll(p.m, p.r, fails, ord), ord, k + 1, fails)

\* dispatch, lines 188-205: the reaping.
ReapAll(m, ord) == Reap(m, EndJobs(m, ord, 1), ord)

\* dispatch without line 228: the callback is invoked and the flag stays.
dispatchKeepsChanged(m, ord1, ord2, fails) ==
    LET s == Schedule(ReapAll(m, ord1), ord2, 1, fails) IN
    [ m |-> s, notified |-> s.changed ]

\* JobManager.dispatch: reap, schedule, notify.
dispatch(m, ord1, ord2, fails) ==
    LET s == Schedule(ReapAll(m, ord1), ord2, 1, fails) IN
    [ m |-> [s EXCEPT !.changed = FALSE], notified |-> s.changed ]

\* ----------------------------------------- garbage collection, renumbering
\* The objects the queues hold.
Queued(m) == UNION { Range(m.queues[q]) : q \in QueueNames }

\* The objects a queue holds, directly or as a successor.
Live(m) == (Queued(m) \cup { m.jobs[o].next : o \in Queued(m) }) \ {0}

\* The place of x in the set S of numbers, counted from 1.
Rank(S, x) == Cardinality({ y \in S : y <= x })

LiveIds(m) == { m.jobs[o].Id : o \in Live(m) }

\* What becomes of each number in the set S of those in use: its place in
\* S, and 0 for 0 and for a number not in S.
Renumbering(S) == [ x \in 0..MaxJobs |-> IF x \in S THEN Rank(S, x) ELSE 0 ]

\* An id no job carries (any more).
Gone == MaxJobs + 1

\* Whether the order of a range over m.queues can show in find or guest:
\* two live jobs, other than a job and its own successor, with one id, or
\* of one type and fingerprint.
Ambiguous(m) ==
    \E a, b \in Live(m) :
        /\ a < b
        /\ m.jobs[a].next # b
        /\ m.jobs[b].next # a
        /\ \/ m.jobs[a].Id = m.jobs[b].Id
           \/ /\ m.jobs[a].Type = m.jobs[b].Type
              /\ Join(m.jobs[a].Packages) = Join(m.jobs[b].Packages)

CanonicalOrder == <<DownloadQueue, SystemChangeQueue, LockQueue>>

\* The orders that can make a difference to find and guest.
FindOrders(m) == IF Ambiguous(m) THEN QueueOrders ELSE {CanonicalOrder}

\* The orders that can make a difference to the reaping loop: with jobs in
\* End in one queue only, pendingDeleteJobs is the same in every order.
ReapOrders(m) ==
    IF \/ Ambiguous(m)
       \/ Cardinality({ q \in QueueNames :
                          WithStatus(m.jobs, m.queues[q], EndStatus) # <<>> }) > 1
    THEN QueueOrders
    ELSE {CanonicalOrder}

\* The orders that can make a difference to the scheduling loop.  The loop
\* body for a queue writes that queue's jobs only, and reads, besides them,
\* the lock queue's: the order shows only in where the lock queue comes, and
\* only if the lock queue runs nothing yet and has a job to start.
ScheduleOrders(m) ==
    IF Ambiguous(m)
    THEN QueueOrders
    ELSE IF /\ RunningJobs(m.jobs, m.queues[LockQueue]) = <<>>
            /\ Candidates(m.jobs, m.queues[LockQueue]) # <<>>
    THEN { <<LockQueue, DownloadQueue, SystemChangeQueue>>,
           <<DownloadQueue, LockQueue, SystemChangeQueue>>,
           <<SystemChangeQueue, LockQueue, DownloadQueue>>,
           <<DownloadQueue, SystemChangeQueue, LockQueue>> }
    ELSE {CanonicalOrder}

\* ------------------------------------------------------------ the machine
AllocatedObjs == { o \in Objs : jobs[o] # NilJob }

M == [ jobs |-> jobs, queues |-> queues, changed |-> changed, exec |-> exec,
       nObjs |-> Cardinality(AllocatedObjs),
       nIds |-> Cardinality({ jobs[o].Id : o \in AllocatedObjs }),
       restarted |-> {}, started |-> {}, JobList |-> JobList ]

EmptyM ==
    [ jobs |-> [o \in Objs |-> NilJob], queues |-> [q \in QueueNames |-> <<>>],
      changed |-> FALSE, exec |-> [i \in Objs |-> "idle"], nObjs |-> 0,
      nIds |-> 0, restarted |-> {}, started |-> {}, JobList |-> <<>> ]

\* No record.
NoOp ==
    [ op |-> "none", id |-> 0, job |-> 0, req |-> <<>>, err |-> NoError,
      flags |-> {}, restarted |-> {}, started |-> {}, res |-> <<>>,
      pre |-> EmptyM, prev |-> [k \in Objs |-> 0],
      prevId |-> [i \in Objs |-> 0], ret |-> 0 ]

\* The record of an operation: its name, the id it was called with and the
\* job find gave for it (0 if none), the request, the error it returned and
\* what else it did (flags).
Did(op, id, ord, req, err, flags) ==
    [ op |-> op, id |-> id, job |-> find(M, id, ord), req |-> req,
      err |-> err, flags |-> flags, restarted |-> {}, started |-> {},
      res |-> <<>>, pre |-> M, prev |-> [k \in Objs |-> 0],
      prevId |-> [i \in Objs |-> 0], ret |-> 0 ]

\* The state an operation leaves becomes the next state: unreachable objects
\* are dropped, objects and ids are renumbered.  If the operation is
\* recorded, last'.pre is the state before it with the numbers of that
\* state, last'.id the id it was called with (as in pre), last'.ret the id
\* CreateJob returned with its new number (Gone if no job carries it),
\* last'.job the job the operation acted on (as in pre), last'.res the jobs
\* PendingJobs returned, last'.restarted
\* and last'.started the jobs a tick restarted and started (as in pre), and
\* last'.prev[o] the number object o had in pre and last'.prevId[i] the
\* number id i had in pre, 0 if it is new.
CommitAt(m, l, ret, recorded, t) ==
    LET live == Live(m)
        ids == LiveIds(m)
        NewObj == Renumbering(live)
        NewId == Renumbering(ids)
        old == [ k \in Objs |->
                   IF k <= Cardinality(live)
                   THEN CHOOSE o \in live : NewObj[o] = k
                   ELSE 0 ]
        oldId == [ i \in Objs |->
                     IF i <= Cardinality(ids)
                     THEN CHOOSE x \in ids : NewId[x] = i
                     ELSE 0 ]
    IN  /\ jobs' = [ k \in Objs |->
                       IF old[k] = 0 THEN NilJob
                       ELSE [ m.jobs[old[k]] EXCEPT
                                !.Id = NewId[@],
                                !.next = NewObj[@],
                                !.CreateTime = k ] ]
        /\ queues' = [ q \in QueueNames |->
                         [ i \in DOMAIN m.queues[q] |-> NewObj[m.queues[q][i]] ] ]
        /\ changed' = m.changed
        /\ exec' = [ i \in Objs |->
                       IF oldId[i] = 0 THEN "idle" ELSE m.exec[oldId[i]] ]
        /\ last' = IF recorded
                   THEN [ l EXCEPT
                            !.restarted = m.restarted,
                            !.started = m.started,
                            !.res = [ i \in DOMAIN l.res |-> NewObj[l.res[i]] ],
                            !.ret = IF ret = 0 THEN 0
                                    ELSE IF NewId[ret] = 0 THEN Gone
                                    ELSE NewId[ret],
                            !.prev = [ k \in Objs |->
                                         IF old[k] \in AllocatedObjs
                                         THEN old[k] ELSE 0 ],
                            !.prevId = [ i \in Objs |->
                                           IF oldId[i] <= M.nIds
                                           THEN oldId[i] ELSE 0 ] ]
                   ELSE NoOp
        /\ tick' = t
        /\ JobList' = [ i \in DOMAIN m.JobList |->
                          [ m.JobList[i] EXCEPT !.obj = NewObj[@] ] ]
        /\ UNCHANGED universe

\* The same for an operation that leaves the dispatch goroutine where it is.
Commit(m, l, ret, recorded) == CommitAt(m, l, ret, recorded, tick)

\* NewJobManager, NewManager: empty queues, nothing flagged, an empty
\* JobList, the dispatch goroutine between two ticks.
Constructed ==
    /\ jobs = [o \in Objs |-> NilJob]
    /\ queues = [q \in QueueNames |-> <<>>]
    /\ changed = FALSE
    /\ exec = [i \in Objs |-> "idle"]
    /\ tick = "idle"
    /\ JobList = <<>>
    /\ last = NoOp

Init == Constructed /\ universe \in Universes

\* The jobs a tick may hand to the backend: Ready, or Failed with retry
\* left.
Startable(m) ==
    { o \in Queued(m) :
        \/ m.jobs[o].Status = ReadyStatus
        \/ m.jobs[o].Status = FailedStatus /\ m.jobs[o].retry > 0 }

\* The ids a client may name: those of the queued jobs, and an unknown one.
ClientIds == { jobs[o].Id : o \in AllocatedObjs } \cup {Gone}

\* Whether CreateJob finds the objects it needs within MaxJobs.
HasRoom(m, req, ord) ==
    \/ find(m, guest(m, req[1], req[2], ord), ord) # 0
    \/ m.nObjs + Fresh(req[1]) <= MaxJobs

\* A client submits a request (the facade's UpdatePackage, InstallPackage,
\* DownloadPackage, RemovePackage, UpdateSource; CreateJob for DistUpgrade).
DoCreateJob ==
    /\ last.op = "none"
    /\ \E recorded \in BOOLEAN, req \in universe, ord \in FindOrders(M) :
        /\ HasRoom(M, req, ord)
        /\ LET r == CreateJob(M, req[1], req[2], ord) IN
           Commit(r.m,
                  Did("CreateJob", 0, ord, req, r.err,
                      IF r.created THEN {"created"} ELSE {}),
                  r.id, recorded)

\* What system.Abort may answer, if the operation calls it at all.
AbortOutcomes(called) == IF called THEN BOOLEAN ELSE {TRUE}

\* Manager.StartJob
DoMarkStart ==
    /\ last.op = "none"
    /\ \E recorded \in BOOLEAN, id \in ClientIds, ord \in FindOrders(M) :
        LET r == MarkStart(M, id, ord) IN
        Commit(r.m, Did("MarkStart", id, ord, <<>>, r.err, {}), 0, recorded)

\* Manager.PauseJob
DoPauseJob ==
    /\ last.op = "none"
    /\ \E recorded \in BOOLEAN, id \in ClientIds, ord \in FindOrders(M) :
        \E abortOk \in AbortOutcomes(PauseJob(M, id, TRUE, ord).aborted) :
        LET r == PauseJob(M, id, abortOk, ord) IN
        Commit(r.m,
               Did("PauseJob", id, ord, <<>>, r.err,
                   IF r.aborted THEN {"abort"} ELSE {}),
               0, recorded)

\* Manager.CleanJob
DoCleanJob ==
    /\ last.op = "none"
    /\ \E recorded \in BOOLEAN, id \in ClientIds, ord \in FindOrders(M) :
        \E abortOk \in AbortOutcomes(CleanJob(M, id, TRUE, ord).aborted) :
        LET r == CleanJob(M, id, abortOk, ord) IN
        Commit(r.m,
               Did("CleanJob", id, ord, <<>>, r.err,
                   (IF r.aborted THEN {"abort"} ELSE {})
                   \cup (IF r.pausing THEN {"pause"} ELSE {})
                   \cup (IF r.paused THEN {"paused"} ELSE {})),
               0, recorded)

\* The backend reports on a job it runs: progress (Running, Cancelable may
\* change), then Succeed or Failed; after Succeed it reports End.
BackendReports(id) ==
    CASE exec[id] = "running" ->
            { <<RunningStatus, c, "running">> : c \in BOOLEAN }
            \cup { <<SucceedStatus, FALSE, "succeeded">>,
                   <<FailedStatus, FALSE, "idle">> }
      [] exec[id] = "succeeded" -> { <<EndStatus, FALSE, "idle">> }
      [] OTHER -> {}

DoProgress ==
    /\ last.op = "none"
    /\ \E recorded \in BOOLEAN, id \in Objs, ord \in FindOrders(M) :
        \E info \in BackendReports(id) :
            LET m1 == handleJobProgressInfo(M, id, info[1], info[2], ord) IN
            Commit([m1 EXCEPT !.exec[id] = info[3]],
                   Did("progress", id, ord, <<>>, NoError, {info[1]}), 0, recorded)

\* One tick of JobManager.Dispatch.  Each of its two loops over m.queues
\* has its own order; the backend may fail any start.
DoDispatch ==
    /\ last.op = "none"
    /\ tick = "idle"
    /\ \E recorded \in BOOLEAN, ord1 \in ReapOrders(M) :
        \E ord2 \in ScheduleOrders(ReapAll(M, ord1)),
           fails \in SUBSET Startable(ReapAll(M, ord1)) :
            LET r == dispatch(M, ord1, ord2, fails) IN
            Commit(r.m,
                   Did("dispatch", 0, ord1, <<>>, NoError,
                       IF r.notified THEN {"notify"} ELSE {}),
                   0, recorded)

Next ==
    \/ DoCreateJob
    \/ DoMarkStart
    \/ DoPauseJob
    \/ DoCleanJob
    \/ DoProgress
    \/ DoDispatch

Spec == Init /\ [][Next]_vars

\* ------------------------------------------------------------ the facade
\* Manager.updateJobList, the notify callback: JobList becomes what List
\* returns.
updateJobList(m, ord) ==
    LET l == List(m, ord) IN
    [ m EXCEPT !.JobList = [ i \in DOMAIN l |->
                               [ obj |-> l[i], Type |-> m.jobs[l[i]].Type ] ] ]

\* The status and the id read through an entry of JobList: a destroyed job
\* was in End, and no queued job carries its id.
EntryStatus(m, e) == IF e.obj = 0 THEN EndStatus ELSE m.jobs[e.obj].Status
EntryId(m, e) == IF e.obj = 0 THEN Gone ELSE m.jobs[e.obj].Id

\* Manager.DistUpgrade, lines 70-77: the ids of the Update jobs of JobList
\* that are not Running.
RECURSIVE updateJobIds(_, _)
updateJobIds(m, l) ==
    IF l = <<>> THEN <<>>
    ELSE IF Head(l).Type = UpdateJobType
            /\ EntryStatus(m, Head(l)) # RunningStatus
         THEN <<EntryId(m, Head(l))>> \o updateJobIds(m, Tail(l))
         ELSE updateJobIds(m, Tail(l))

\* Manager.DistUpgrade, lines 78-80: CleanJob on each, the result dropped.
RECURSIVE CleanAll(_, _, _)
CleanAll(m, ids, ord) ==
    IF ids = <<>> THEN m
    ELSE CleanAll(CleanJob(m, Head(ids), TRUE, ord).m, Tail(ids), ord)

\* Manager.DistUpgrade
DistUpgrade(m, ord) ==
    IF \E i \in DOMAIN m.JobList : m.JobList[i].Type = DistUpgradeJobType
    THEN [ m |-> m, job |-> 0, id |-> 0, err |-> ResourceExitError,
           created |-> FALSE ]
    ELSE CreateJob(CleanAll(m, updateJobIds(m, m.JobList), ord),
                   DistUpgradeJobType, <<>>, ord)

\* A client calls Manager.DistUpgrade.
DoDistUpgrade ==
    /\ last.op = "none"
    /\ \E recorded \in BOOLEAN, ord \in FindOrders(M) :
        /\ HasRoom(M, DistUpgrade_, ord)
        /\ LET r == DistUpgrade(M, ord) IN
           Commit(r.m,
                  Did("DistUpgrade", 0, ord, DistUpgrade_, r.err,
                      IF r.created THEN {"created"} ELSE {}),
                  r.id, recorded)

\* One tick of JobManager.Dispatch under the Manager: the notify callback
\* is updateJobList.
DoDispatchManager ==
    /\ last.op = "none"
    /\ tick = "idle"
    /\ \E recorded \in BOOLEAN, ord1 \in ReapOrders(M) :
        \E ord2 \in ScheduleOrders(ReapAll(M, ord1)),
           fails \in SUBSET Startable(ReapAll(M, ord1)) :
            LET r == dispatch(M, ord1, ord2, fails) IN
            \E ord3 \in FindOrders(r.m) :
            Commit(IF r.notified THEN updateJobList(r.m, ord3) ELSE r.m,
                   Did("dispatch", 0, ord1, <<>>, NoError,
                       IF r.notified THEN {"notify"} ELSE {}),
                   0, recorded)

\* The requests clients make through the facade next to DistUpgrade.
UniversesManager == { {Update_ab} }

InitManager == Constructed /\ universe \in UniversesManager

NextManager ==
    \/ DoCreateJob
    \/ DoMarkStart
    \/ DoPauseJob
    \/ DoCleanJob
    \/ DoProgress
    \/ DoDistUpgrade
    \/ DoDispatchManager

SpecManager == InitManager /\ [][NextManager]_vars

\* ------------------------------------------------------ a queue by itself
\* A JobQueue with any content: jobs created one after the other, each in
\* any status, Failed jobs with or without retry left, in the order Add
\* leaves them in.  The other orders come about by Raise.
QueueStatuses == {ReadyStatus, RunningStatus, FailedStatus, PausedStatus}

\* The type of the jobs drawn for a queue, and the packages of the i-th.
TypeIn(q) == IF q = DownloadQueue THEN DownloadJobType ELSE RemoveJobType
PackagesOf(i) == [ k \in 1..i |-> "a" ]

InitQueue ==
    \E q \in {DownloadQueue, SystemChangeQueue}, n \in 1..MaxJobs :
        \E st \in [1..n -> QueueStatuses], exhausted \in SUBSET (1..n) :
            /\ \A o \in exhausted : st[o] = FailedStatus
            /\ jobs = [ o \in Objs |->
                          IF o > n THEN NilJob
                          ELSE [ Id |-> o, Type |-> TypeIn(q),
                                 Packages |-> PackagesOf(o), Status |-> st[o],
                                 Cancelable |-> TRUE,
                                 retry |-> IF o \in exhausted THEN 0
                                           ELSE DefaultRetry,
                                 queueName |-> q, next |-> 0,
                                 CreateTime |-> o ] ]
            /\ queues = [ x \in QueueNames |->
                            IF x = q THEN [ i \in 1..n |-> i ] ELSE <<>> ]
            /\ exec = [ i \in Objs |->
                          IF i <= n /\ st[i] = RunningStatus
                          THEN "running" ELSE "idle" ]
            /\ changed = FALSE
            /\ universe = {}
            /\ tick = "idle"
            /\ JobList = <<>>
            /\ last = NoOp

\* The queue that holds the jobs.
TheQueue == CHOOSE q \in QueueNames : queues[q] # <<>>

\* JobQueue.Raise is called.
DoRaise ==
    /\ last.op = "none"
    /\ \E recorded \in BOOLEAN, id \in ClientIds :
        LET r == QueueRaise(M, TheQueue, id) IN
        Commit(r.m, Did("Raise", id, CanonicalOrder, <<>>, r.err, {}),
               0, recorded)

\* JobQueue.PendingJobs is called.
DoPendingJobs ==
    /\ last.op = "none"
    /\ \E recorded \in BOOLEAN :
        LET r == PendingJobs(M, TheQueue) IN
        Commit(r.m,
               [ Did("PendingJobs", 0, CanonicalOrder, <<>>, NoError, {})
                   EXCEPT !.res = r.r ],
               0, recorded)

NextQueue ==
    \/ DoRaise
    \/ DoPendingJobs

SpecQueue == InitQueue /\ [][NextQueue]_vars

\* ------------------------------------------------ the tick in two steps
\* dispatch takes dispatchLock (lines 185-186) and runs its two loops; no
\* other operation takes the lock, so the client operations and the
\* progress callback run whenever they are called, also between the two
\* loops of a tick.  Only another tick waits for the lock.

\* dispatch, lines 185-205: the lock is taken and the End jobs are reaped.
DispatchReap ==
    /\ last.op = "none"
    /\ tick = "idle"
    /\ \E ord1 \in ReapOrders(M) :
        CommitAt(ReapAll(M, ord1), NoOp, 0, FALSE, "reaped")

\* dispatch, lines 207-230: the queues are scheduled, the change is
\* notified and the lock is released.
DispatchSchedule ==
    /\ last.op = "none"
    /\ tick = "reaped"
    /\ \E recorded \in BOOLEAN, ord2 \in ScheduleOrders(M),
          fails \in SUBSET Startable(M) :
        LET s == Schedule(M, ord2, 1, fails) IN
        CommitAt([s EXCEPT !.changed = FALSE],
                 Did("dispatch", 0, ord2, <<>>, NoError,
                     IF s.changed THEN {"notify"} ELSE {}),
                 0, recorded, "idle")

\* The requests of the behaviours in which the tick takes two steps.
UniversesSteps == { {Update_ab, Remove_ab}, {DistUpgrade_, Download_ab} }

InitSteps == Constructed /\ universe \in UniversesSteps

NextSteps ==
    \/ DoCreateJob
    \/ DoMarkStart
    \/ DoPauseJob
    \/ DoCleanJob
    \/ DoProgress
    \/ DispatchReap
    \/ DispatchSchedule

SpecSteps == InitSteps /\ [][NextSteps]_vars

\* ------------------------------------------------------- fair dispatching
\* JobManager.Dispatch runs a tick after every interval, for ever: a tick is
\* never put off for good, and a tick that has begun is finished.  Clients
\* and the backend are under no obligation.  No operation is recorded, so
\* that a behaviour goes on.
UniversesFair == { {DistUpgrade_, Download_ab}, {Install_a_b, UpdateSource_} }

InitFair == Constructed /\ universe \in UniversesFair

FairCreateJob == DoCreateJob /\ last' = NoOp
FairMarkStart == DoMarkStart /\ last' = NoOp
FairPauseJob == DoPauseJob /\ last' = NoOp
FairCleanJob == DoCleanJob /\ last' = NoOp
FairProgress == DoProgress /\ last' = NoOp
FairSchedule == DispatchSchedule /\ last' = NoOp

NextFair ==
    \/ FairCreateJob
    \/ FairMarkStart
    \/ FairPauseJob
    \/ FairCleanJob
    \/ FairProgress
    \/ DispatchReap
    \/ FairSchedule

\* The steps of NextFair that change tick are those of the dispatch
\* goroutine, and each is possible whenever tick has the value it leaves.
TickBegins == tick = "idle" /\ tick' = "reaped"
TickEnds == tick = "reaped" /\ tick' = "idle"

SpecFair ==
    InitFair /\ [][NextFair]_vars /\ WF_tick(TickBegins) /\ WF_tick(TickEnds)

\* ------------------------------------------------------------------ claims
\* Number of Running jobs of queue q in the manager state m.
NumRunning(m, q) == Len(RunningJobs(m.jobs, m.queues[q]))

C2_LockExcludesSystemChange ==
    ~(NumRunning(M, LockQueue) > 0 /\ NumRunning(M, SystemChangeQueue) > 0)

\* The jobs of queue q that are Running in the manager state m.
RunningIn(m, q) == Range(RunningJobs(m.jobs, m.queues[q]))

\* C3: an operation that begins while a job of the "lock" queue is Running
\* moves no job of the "download" or "system change" queue into Running:
\* whatever runs there after it was running there before it.
C3_NoStartWhileLockRuns ==
    (last.op # "none" /\ NumRunning(last.pre, LockQueue) > 0)
    => \A q \in {DownloadQueue, SystemChangeQueue} :
          \A o \in RunningIn(M, q) :
             /\ last.prev[o] # 0
             /\ last.pre.jobs[last.prev[o]].Status = RunningStatus

\* C3, its case: a tick that began while a lock job was Running found a
\* candidate in another queue that had room for it, and left it waiting.
C3_Witness ==
    /\ last.op = "dispatch"
    /\ NumRunning(last.pre, LockQueue) > 0
    /\ \E q \in {DownloadQueue, SystemChangeQueue} :
          \E i \in DOMAIN queues[q] :
             LET o == queues[q][i] IN
             /\ last.prev[o] # 0
             /\ last.pre.jobs[last.prev[o]].Status = ReadyStatus
             /\ NumRunning(last.pre, q) < Cap(q)
             /\ jobs[o].Status = ReadyStatus

\* C4: two successive CreateJob calls with identical type and packages
\* return the same Job id, and the second call leaves the number of jobs in
\* every queue unchanged.  (After a recorded CreateJob, the same call on the
\* state it left.)
C4_IdempotentCreateJob ==
    last.op = "CreateJob"
    => \A ord \in QueueOrders :
          HasRoom(M, last.req, ord)
          => LET r == CreateJob(M, last.req[1], last.req[2], ord) IN
             /\ r.id = last.ret
             /\ \A q \in QueueNames : Len(r.m.queues[q]) = Len(queues[q])

\* C5: in every reachable state no queue contains two jobs that share both
\* Type and package-list fingerprint.
C5_NoDuplicateInQueue ==
    \A q \in QueueNames :
       \A i, k \in DOMAIN queues[q] :
          (/\ jobs[queues[q][i]].Type = jobs[queues[q][k]].Type
           /\ Join(jobs[queues[q][i]].Packages) = Join(jobs[queues[q][k]].Packages))
          => i = k

\* C5, its case: an Install request for packages that have a Download job
\* built its jobs and was refused by the download queue, which holds the one
\* Download job as before.
C5_Witness ==
    /\ last.op = "CreateJob"
    /\ last.req = Install_a_b
    /\ "created" \in last.flags
    /\ last.ret = Gone
    /\ Len(queues[DownloadQueue]) = 1
    /\ Len(last.pre.queues[DownloadQueue]) = 1
    /\ jobs[queues[DownloadQueue][1]].Type = DownloadJobType
    /\ Join(jobs[queues[DownloadQueue][1]].Packages) = Join(Install_a_b[2])

\* The predecessors a recorded tick found in End with their successor still
\* linked, numbered as in the state before the tick.
Promoting ==
    { p \in Queued(last.pre) :
        /\ last.pre.jobs[p].Status = EndStatus
        /\ last.pre.jobs[p].next # 0 }

\* C6: the successor s of a queued job p is in no queue and is not Running;
\* the tick that finds p in End with s linked removes p, and leaves s in
\* "system change", started (Ready, or handed to the backend by the same
\* tick); and an Install job enters a queue in no
\* other way, so that s, once in a queue and nobody's successor, enters once.
C6_SuccessorPromotedOnce ==
    /\ \A p \in Queued(M) :
          jobs[p].next # 0
          => /\ jobs[p].next \notin Queued(M)
             /\ jobs[jobs[p].next].Status = ReadyStatus
    /\ last.op = "dispatch"
       => \A p \in Promoting :
             /\ \A k \in AllocatedObjs : last.prev[k] # p
             /\ \E i \in DOMAIN queues[SystemChangeQueue] :
                   LET k == queues[SystemChangeQueue][i] IN
                   /\ last.prev[k] = last.pre.jobs[p].next
                   /\ jobs[k].Status \in {ReadyStatus, RunningStatus, FailedStatus}
    /\ last.op # "none"
       => \A k \in Queued(M) :
             (jobs[k].Type = InstallJobType
              /\ last.prev[k] \notin Queued(last.pre))
             => /\ last.op = "dispatch"
                /\ \E p \in Promoting : last.pre.jobs[p].next = last.prev[k]

\* C6, its case: a tick reaped a predecessor that reached End after Succeed,
\* and its successor is in "system change".
C6_Witness ==
    /\ last.op = "dispatch"
    /\ \E p \in Promoting :
          /\ last.pre.jobs[p].Type = DownloadJobType
          /\ \E k \in Range(queues[SystemChangeQueue]) :
                /\ last.prev[k] = last.pre.jobs[p].next
                /\ jobs[k].Type = InstallJobType

\* The queued jobs that carry the id which had the number x before the
\* recorded operation, and those that carry the id numbered i now.
CarriersOfOld(x) == { k \in Queued(M) : last.prevId[jobs[k].Id] = x }

Carriers(i) == { k \in Queued(M) : jobs[k].Id = i }

\* C7: the id CreateJob(Install, packages) returned is carried by exactly
\* one queued job, the Download-type primary in "download" or, after the
\* handoff, the Install-type successor in "system change"; every operation
\* leaves an id that one queued job carried on one queued job - the same job,
\* or its successor when a tick hands over - until a tick reaps the job
\* without successor; and no id is on two queued jobs.
C7_StablePublicId ==
    /\ \A a, b \in Queued(M) : jobs[a].Id = jobs[b].Id => a = b
    /\ (last.op = "CreateJob" /\ last.req[1] = InstallJobType)
       => \E k \in Queued(M) :
             /\ Carriers(last.ret) = {k}
             /\ \/ /\ jobs[k].Type = DownloadJobType
                   /\ k \in Range(queues[DownloadQueue])
                \/ /\ jobs[k].Type = InstallJobType
                   /\ k \in Range(queues[SystemChangeQueue])
    /\ last.op # "none"
       => \A o \in Queued(last.pre) :
             LET x == last.pre.jobs[o].Id
                 reaped == /\ last.op = "dispatch"
                           /\ last.pre.jobs[o].Status = EndStatus
             IN  IF reaped /\ last.pre.jobs[o].next = 0
                 THEN CarriersOfOld(x) = {}
                 ELSE \E k \in Queued(M) :
                         /\ CarriersOfOld(x) = {k}
                         /\ last.prev[k] = IF reaped THEN last.pre.jobs[o].next
                                           ELSE o

\* The job a recorded operation acted on, as it was before the operation,
\* and the objects that are that job now.
Target == last.pre.jobs[last.job]

TargetNow == { k \in AllocatedObjs : last.prev[k] = last.job }

\* C8: PauseJob on a job that is Running and not Cancelable leaves it
\* Running.
C8_NonCancelableNotPaused ==
    (/\ last.op = "PauseJob"
     /\ last.job # 0
     /\ Target.Status = RunningStatus
     /\ ~Target.Cancelable)
    => \A k \in TargetNow : jobs[k].Status = RunningStatus

\* What CleanJob is claimed to leave of a job with a successor: the job in
\* its queue, in End, without successor; the successor referred to by
\* nothing, so that no tick can admit it; and the job gone after the next
\* tick.
SuccessorAbandoned ==
    /\ \E k \in TargetNow :
          /\ k \in Range(queues[jobs[k].queueName])
          /\ jobs[k].Status = EndStatus
          /\ jobs[k].next = 0
          /\ \A ord \in QueueOrders : k \notin Queued(ReapAll(M, ord))
    /\ \A k \in AllocatedObjs : last.prev[k] # Target.next

\* C9 as stated: CleanJob on any queued job that has a successor abandons
\* the successor.
C9_CleanJobAbandonsSuccessor ==
    (last.op = "CleanJob" /\ last.job # 0 /\ Target.next # 0)
    => SuccessorAbandoned

\* C9 amended: CleanJob on a queued job that has a successor and is not
\* already in End abandons the successor.
C9_CleanJobBeforeEndAbandonsSuccessor ==
    (/\ last.op = "CleanJob"
     /\ last.job # 0
     /\ Target.next # 0
     /\ Target.Status # EndStatus)
    => SuccessorAbandoned

\* C9, its case: CleanJob was called on a job with a successor that was not
\* in End, and the successor is gone.
C9_Witness ==
    /\ last.op = "CleanJob"
    /\ last.job # 0
    /\ Target.next # 0
    /\ Target.Status = SucceedStatus
    /\ SuccessorAbandoned

\* C10: CleanJob on a job that is Running and Cancelable calls PauseJob,
\* which calls Abort and moves the job to Paused; from there the job goes to
\* End.
C10_CleanJobThroughPaused ==
    (/\ last.op = "CleanJob"
     /\ last.job # 0
     /\ Target.Status = RunningStatus
     /\ Target.Cancelable)
    => /\ {"pause", "abort", "paused"} \subseteq last.flags
       /\ \A k \in TargetNow : jobs[k].Status = EndStatus


\* The jobs of the state before the recorded operation that are still
\* allocated, as pairs <<object now, object before>>.
Survivors == { <<k, last.prev[k]>> : k \in { o \in AllocatedObjs : last.prev[o] # 0 } }

\* C11: a Failed job is restarted by the dispatcher only while it has retry
\* left, and each such restart costs one unit: the retry of a job is within
\* 0..DefaultRetry and is never raised by any operation, a job a tick
\* restarted was Failed with retry left and has lost exactly one unit, and
\* once the retry is 0 PendingJobs no longer returns the Failed job, so it
\* stays Failed until a client restarts or cleans it.
C11_RetryBounded ==
    /\ \A o \in AllocatedObjs : jobs[o].retry \in 0..DefaultRetry
    /\ \A p \in Survivors : jobs[p[1]].retry <= last.pre.jobs[p[2]].retry
    /\ last.op # "dispatch" => last.restarted = {}
    /\ \A o \in last.restarted :
          /\ last.pre.jobs[o].Status = FailedStatus
          /\ last.pre.jobs[o].retry > 0
          /\ \A p \in Survivors :
                p[2] = o => jobs[p[1]].retry = last.pre.jobs[o].retry - 1
    /\ \A q \in QueueNames :
          \A o \in Range(PendingJobs(M, q).r) :
              ~(jobs[o].Status = FailedStatus /\ jobs[o].retry = 0)
    /\ last.op = "dispatch" =>
          \A p \in Survivors :
              (/\ last.pre.jobs[p[2]].Status = FailedStatus
               /\ last.pre.jobs[p[2]].retry = 0)
              => /\ jobs[p[1]].Status = FailedStatus
                 /\ jobs[p[1]].retry = 0

\* A tick restarted a Failed job on its last unit of retry, and the backend
\* failed it again: the job is Failed with no retry left.
C11_Witness ==
    /\ last.op = "dispatch"
    /\ \E p \in Survivors :
          /\ p[2] \in last.restarted
          /\ last.pre.jobs[p[2]].retry = 1
          /\ jobs[p[1]].Status = FailedStatus
          /\ jobs[p[1]].retry = 0

\* A tick had room for a Failed job without retry and left it alone.
C11_WitnessExhausted ==
    /\ last.op = "dispatch"
    /\ \E p \in Survivors :
          /\ last.pre.jobs[p[2]].Status = FailedStatus
          /\ last.pre.jobs[p[2]].retry = 0
          /\ last.started = {}
          /\ jobs[p[1]].Status = FailedStatus

\* The jobs whose retry the recorded operation lowered (objects before it).
RetryLowered ==
    { p[2] : p \in { q \in Survivors :
                       jobs[q[1]].retry < last.pre.jobs[q[2]].retry } }

\* C12: the retry budget is consumed by attempts: a job's retry is lowered
\* only by a dispatch tick that restarts the job from Failed and hands it
\* to the backend.
C12_RetryConsumedByAttempts ==
    \A o \in RetryLowered :
        /\ last.op = "dispatch"
        /\ o \in last.restarted
        /\ o \in last.started

\* The operations that take no lock.
Unlocked == {"CreateJob", "MarkStart", "PauseJob", "CleanJob", "progress"}

\* C13: the manager mutex serialises all mutation: neither a client
\* operation nor the progress callback runs between the start and the end
\* of a dispatch tick.
C13_MutationSerialized ==
    last.op \in Unlocked => tick = "idle"

\* The jobs queued before the recorded operation that are queued after it
\* (objects before it).
StillQueued == { last.prev[k] : k \in Queued(M) } \ {0}

\* C14: a dispatch tick removes from its queue every job that is in End
\* when the tick starts and no job in another status: the jobs queued before
\* the tick that are queued after it are those that were not in End, each
\* in the queue it was in, and no queue holds a job in End when the tick is
\* over.
C14_Reaping ==
    last.op = "dispatch" =>
        /\ \A o \in Queued(last.pre) :
              o \in StillQueued <=> last.pre.jobs[o].Status # EndStatus
        /\ \A q \in QueueNames :
              { last.prev[k] : k \in Range(queues[q]) } \cap Queued(last.pre)
                = { o \in Range(last.pre.queues[q]) :
                      last.pre.jobs[o].Status # EndStatus }
        /\ \A k \in Queued(M) : jobs[k].Status # EndStatus

\* A tick found a job in End next to a job in another status in one queue;
\* it removed the first and kept the second.
C14_Witness ==
    /\ last.op = "dispatch"
    /\ \E q \in QueueNames :
        \E o, u \in Range(last.pre.queues[q]) :
            /\ last.pre.jobs[o].Status = EndStatus
            /\ last.pre.jobs[u].Status \notin {EndStatus, ReadyStatus}
            /\ o \notin StillQueued
            /\ u \in StillQueued

\* Whether the recorded operation changed what an observer of the queues
\* sees: a job was admitted or removed, or the status or the Cancelable of a
\* queued job changed.
ObservableChange ==
    \/ \E k \in Queued(M) : last.prev[k] \notin Queued(last.pre)
    \/ \E o \in Queued(last.pre) : o \notin StillQueued
    \/ \E k \in Queued(M) :
          /\ last.prev[k] # 0
          /\ \/ jobs[k].Status # last.pre.jobs[last.prev[k]].Status
             \/ jobs[k].Cancelable # last.pre.jobs[last.prev[k]].Cancelable

\* C16: a dispatch tick invokes the notify callback (once) exactly if a
\* change was flagged before the tick or by the tick itself (it reaped or
\* started a job), and the changed flag is clear when the tick ends; any
\* other operation invokes no callback, never clears the flag and sets it
\* when it admits a job or changes a status, so a flagged change is
\* notified by the next tick.
C16_Notify ==
    /\ last.op = "dispatch" =>
          /\ changed = FALSE
          /\ "notify" \in last.flags <=>
                \/ last.pre.changed
                \/ \E o \in Queued(last.pre) :
                      last.pre.jobs[o].Status = EndStatus
                \/ last.started # {}
          /\ ObservableChange => "notify" \in last.flags
    /\ last.op \notin {"none", "dispatch"} =>
          /\ "notify" \notin last.flags
          /\ last.pre.changed => changed
          /\ ObservableChange => changed

\* A change was flagged and a tick found only Running jobs: it started
\* nothing and invoked the callback.
C16_Witness ==
    /\ last.op = "dispatch"
    /\ last.pre.changed
    /\ last.started = {}
    /\ \A o \in Queued(last.pre) : last.pre.jobs[o].Status = RunningStatus
    /\ Queued(last.pre) # {}
    /\ "notify" \in last.flags

\* A tick with work queued but nothing flagged, reaped or started invoked
\* no callback.
C16_WitnessQuiet ==
    /\ last.op = "dispatch"
    /\ ~last.pre.changed
    /\ Queued(last.pre) # {}
    /\ "notify" \notin last.flags

\* The queued jobs of type t in the manager state m.
QueuedOfType(m, t) == { o \in Queued(m) : m.jobs[o].Type = t }

\* C15: Manager.DistUpgrade refuses whenever a DistUpgrade job is queued;
\* otherwise every queued Update job that is not Running is in End after
\* it, every Running Update job is as it was, and a DistUpgrade job is in
\* "lock".
C15_DistUpgradeFacade ==
    last.op = "DistUpgrade" =>
        IF QueuedOfType(last.pre, DistUpgradeJobType) # {}
        THEN last.err = ResourceExitError
        ELSE /\ \A p \in Survivors :
                  p[2] \in QueuedOfType(last.pre, UpdateJobType) =>
                      IF last.pre.jobs[p[2]].Status = RunningStatus
                      THEN jobs[p[1]].Status = RunningStatus
                      ELSE jobs[p[1]].Status = EndStatus
             /\ \E k \in Range(queues[LockQueue]) :
                  jobs[k].Type = DistUpgradeJobType

\* The lock queue of m neither runs a job nor has one to start.
LockFree(m) ==
    /\ NumRunning(m, LockQueue) = 0
    /\ Candidates(m.jobs, m.queues[LockQueue]) = <<>>

\* The Ready jobs of the download queue of m that fit within its free
\* capacity: those among the first Cap - running candidates.
ReadyThatFit(m) ==
    LET c == Candidates(m.jobs, m.queues[DownloadQueue])
        space == Cap(DownloadQueue) - NumRunning(m, DownloadQueue)
    IN  { c[i] : i \in { n \in DOMAIN c :
                            n <= space /\ m.jobs[c[n]].Status = ReadyStatus } }

\* C17, the tick: if the lock queue neither runs a job nor has one to start
\* when a tick begins, the tick hands every Ready download that fits to the
\* backend, and the job is Running, or Failed, when the tick ends.
C17_TickStartsDownloads ==
    (last.op = "dispatch" /\ LockFree(last.pre)) =>
        \A p \in Survivors :
            p[2] \in ReadyThatFit(last.pre) =>
                /\ p[2] \in last.started
                /\ jobs[p[1]].Status \in {RunningStatus, FailedStatus}
                /\ jobs[p[1]].Status = RunningStatus
                     <=> exec[jobs[p[1]].Id] = "running"

\* A tick found a Ready download and a lock job that had left Running, and
\* the download is Running after it.
C17_Witness ==
    /\ last.op = "dispatch"
    /\ LockFree(last.pre)
    /\ last.pre.queues[LockQueue] # <<>>
    /\ \E p \in Survivors :
          /\ p[2] \in ReadyThatFit(last.pre)
          /\ jobs[p[1]].Status = RunningStatus

\* A Ready download that fits is waiting and the lock queue is free.
ReadyAndFree == LockFree(M) /\ ReadyThatFit(M) # {}

\* The jobs of ReadyThatFit(M) that a tick, whatever the order of its two
\* loops and whatever the backend answers, does not leave Running or Failed
\* and handed to the backend.
NotStarted ==
    UNION { { o \in ReadyThatFit(M) :
                \/ o \notin d.started
                \/ d.jobs[o].Status \notin {RunningStatus, FailedStatus} }
            : d \in { dispatch(M, o1, o2, fails).m :
                        o1 \in QueueOrders, o2 \in QueueOrders,
                        fails \in SUBSET ReadyThatFit(M) } }

QueueBefore == last.pre.queues[TheQueue]

\* The candidates of that queue: the Ready jobs and the Failed jobs with
\* retry left.
CandidatesBefore ==
    { o \in Range(QueueBefore) :
        \/ last.pre.jobs[o].Status = ReadyStatus
        \/ last.pre.jobs[o].Status = FailedStatus /\ last.pre.jobs[o].retry > 0 }

\* The number of jobs PendingJobs has room for, and no more than there are
\* candidates.
SpaceBefore ==
    Min(Max(Cap(TheQueue) - NumRunning(last.pre, TheQueue), 0),
        Cardinality(CandidatesBefore))

\* Whether job a precedes job b in the global ordering: UpdateSource
\* first, then ascending CreateTime.
Precedes(a, b) ==
    \/ last.pre.jobs[a].Type = UpdateSourceJobType
         /\ last.pre.jobs[b].Type # UpdateSourceJobType
    \/ /\ last.pre.jobs[a].Type = UpdateSourceJobType
           <=> last.pre.jobs[b].Type = UpdateSourceJobType
       /\ last.pre.jobs[a].CreateTime < last.pre.jobs[b].CreateTime

\* Whether job a stands before job b in the queue.
StandsBefore(a, b) ==
    \E i, j \in DOMAIN QueueBefore :
        i < j /\ QueueBefore[i] = a /\ QueueBefore[j] = b

\* C18, as stated: PendingJobs returns the first min(space, candidates)
\* candidates of the candidate list sorted by the global ordering: it
\* returns no candidate while it leaves out one that precedes it.
C18_PendingJobsSortedThenCut ==
    last.op = "PendingJobs" =>
        /\ Len(last.res) = SpaceBefore
        /\ Range(last.res) \subseteq CandidatesBefore
        /\ \A a \in CandidatesBefore, b \in Range(last.res) :
              Precedes(a, b) => a \in Range(last.res)

\* C18, amended: PendingJobs returns the first min(space, candidates)
\* candidates in the order of the queue, sorted among themselves by the
\* global ordering: it returns no candidate while it leaves out one that
\* stands before it in the queue; the retry of every Failed candidate is
\* one less, and nothing else changes.
C18_PendingJobsCutThenSorted ==
    last.op = "PendingJobs" =>
        /\ Len(last.res) = SpaceBefore
        /\ Cardinality(Range(last.res)) = SpaceBefore
        /\ Range(last.res) \subseteq CandidatesBefore
        /\ \A a \in CandidatesBefore, b \in Range(last.res) :
              StandsBefore(a, b) => a \in Range(last.res)
        /\ \A i, j \in DOMAIN last.res :
              i < j => Precedes(last.res[i], last.res[j])
        /\ queues = last.pre.queues
        /\ \A o \in Objs :
              jobs[o] = IF o \in CandidatesBefore
                           /\ last.pre.jobs[o].Status = FailedStatus
                        THEN [ last.pre.jobs[o] EXCEPT !.retry = @ - 1 ]
                        ELSE last.pre.jobs[o]

\* PendingJobs had room for two of three candidates, and the two that stood
\* first in the queue were not the two that were created first.
C18_Witness ==
    /\ last.op = "PendingJobs"
    /\ Len(last.res) = 2
    /\ Cardinality(CandidatesBefore) = 3
    /\ \E a \in CandidatesBefore \ Range(last.res), b \in Range(last.res) :
          Precedes(a, b)

\* Whether job a stands before job b in the queue now.
StandsBeforeNow(a, b) ==
    \E i, j \in DOMAIN queues[TheQueue] :
        i < j /\ queues[TheQueue][i] = a /\ queues[TheQueue][j] = b

\* What Raise leaves alone whatever it is called with: the jobs, their
\* statuses, the set of jobs of each queue, the other queues, the flag.
RaiseFrame ==
    /\ jobs = last.pre.jobs
    /\ \A q \in QueueNames : Range(queues[q]) = Range(last.pre.queues[q])
    /\ \A q \in QueueNames : Len(queues[q]) = Len(last.pre.queues[q])
    /\ \A q \in QueueNames \ {TheQueue} : queues[q] = last.pre.queues[q]
    /\ changed = last.pre.changed
    /\ exec = last.pre.exec

\* C19, as stated: Raise(id) on a queued job puts it at index 0, leaves
\* the jobs of the queue and their statuses as they are and keeps the
\* relative order of all other jobs; on an absent id it returns not-found
\* and changes nothing.
C19_RaiseKeepsOrder ==
    last.op = "Raise" =>
        /\ RaiseFrame
        /\ IF last.job = 0
           THEN last.err = NotFoundError /\ queues = last.pre.queues
           ELSE /\ last.err = NoError
                /\ queues[TheQueue][1] = last.job
                /\ \A a, b \in Range(QueueBefore) \ {last.job} :
                      StandsBefore(a, b) <=> StandsBeforeNow(a, b)

\* C19, amended: Raise(id) on a queued job exchanges it with the job at
\* index 0 and leaves every other index, the jobs of the queue and their
\* statuses as they are; on an absent id it returns not-found and changes
\* nothing.
C19_RaiseSwapsWithHead ==
    last.op = "Raise" =>
        /\ RaiseFrame
        /\ IF last.job = 0
           THEN last.err = NotFoundError /\ queues = last.pre.queues
           ELSE /\ last.err = NoError
                /\ \A i \in DOMAIN QueueBefore :
                      queues[TheQueue][i] =
                          IF i = 1 THEN last.job
                          ELSE IF QueueBefore[i] = last.job THEN QueueBefore[1]
                          ELSE QueueBefore[i]

\* Raise was called on a job with two jobs or more before it: the job that
\* was first now stands behind the jobs that were between the two.
C19_Witness ==
    /\ last.op = "Raise"
    /\ last.job # 0
    /\ Len(QueueBefore) >= 3
    /\ QueueBefore[3] = last.job
    /\ queues[TheQueue][3] = QueueBefore[1]
    /\ queues[TheQueue][2] = QueueBefore[2]

\* C20: PauseJob on a job that is Ready makes no call to the backend and
\* leaves the job Paused.
C20_ReadyPausedWithoutBackend ==
    (/\ last.op = "PauseJob"
     /\ last.job # 0
     /\ Target.Status = ReadyStatus)
    => /\ "abort" \notin last.flags
       /\ last.err = NoError
       /\ \A k \in TargetNow : jobs[k].Status = PausedStatus
=============================================================================
